---- MODULE Spec2Model ----
(***************************************************************************)
(* Verification model of the gfs-wind-interpolator scripts:                *)
(*   wind_profiler.py, raw_data_viewer.py, winds_from_grib2.py.            *)
(*                                                                         *)
(* Time is counted in whole hours since 00:00 UTC of the first day of the  *)
(* calendar below.  A remote identifier (URL) is a record of the path      *)
(* segments and file name pieces that the f-strings of the code put        *)
(* together; numbers formatted with {:02d} / {:03d} are digit sequences.   *)
(***************************************************************************)
EXTENDS Integers, Sequences, FiniteSets, TLC

VARIABLES
    script,          \* which script runs the request
    clock,           \* current UTC time, whole hours
    remote,          \* remote store: the set of identifiers that exist
    localFiles,      \* file names present in the working directory
    pc,              \* position of the request in the script
    model_type,      \* 'hrrr' | 'rap' | 'gfs'
    forecast_hour,   \* requested / selected forecast hour
    scan,            \* value returned by the last run scan
    errs,            \* identifiers whose probe raised a network error in the last call
    checked,         \* value returned by the last check_forecast_availability
    mode,            \* "explicit" | "auto": how the model was chosen
    available_hours, \* list returned by get_immediately_available_hours
    filename,        \* name of the artifact file
    file_url,        \* identifier the request transfers
    ret,             \* value returned to main / how the script ended
    auto,            \* locals of the auto-mode loop of get_user_input
    ticks,           \* hours the clock advanced during the request
    hist,            \* history of the request (not program state), see NoHist
    ds,              \* the decoded dataset the grid point is looked up in
    target,          \* latitude and longitude typed by the user
    cell,            \* lat_idx, lon_idx of the nearest grid point
    location,        \* latitude and longitude typed by the user, in tenths of a degree
    DTED_AVAILABLE,  \* the module-level switch of the terrain lookup
    dted0,           \* the local DTED0 directory: its tile files and their content
    elev,            \* history of the ground elevation (not program state), see NoElev
    column,          \* levs, u, v of the dataset at the located cell
    max_elevation_ft,    \* the ceiling typed by the user
    altitude_reference,  \* 'MSL' | 'AGL'
    ground_elevation_ft, \* ground elevation in feet MSL, a rational
    df               \* the profile table

----------------------------------------------------------------------------
(* Bounds of the model *)

\* number of run cycles before the newest one that the remote store may hold
StoreDepth == 3
\* probes of one request that may raise a network error or time out
MaxErrors == 1
\* hours the clock may advance while a request runs
MaxTicks == 1
\* forecast hours a run cycle of the remote store has published at most
MaxPublished == 2
\* rows and columns of the regular grid
LatCells == 3
LonCells == 6

----------------------------------------------------------------------------
(* Small helpers *)

SetMin(S) == CHOOSE x \in S : \A y \in S : x <= y
SetMax(S) == CHOOSE x \in S : \A y \in S : x >= y

\* range(a, b, step) of Python as a sequence
PyRange(a, b, step) == [i \in 1..((b - a + step - 1) \div step) |-> a + (i - 1) * step]
SeqToSet(s) == {s[i] : i \in 1..Len(s)}

----------------------------------------------------------------------------
(* datetime: hour-of-day, date, strftime("%Y%m%d"), strptime *)

HourOf(t) == t % 24
DayOf(t) == t \div 24

\* the days the model's clock can denote, as strftime("%Y%m%d") renders them
CalendarDates == <<20241229, 20241230, 20241231, 20250101, 20250102, 20250103>>
strftime(t) == CalendarDates[DayOf(t) + 1]
\* datetime.strptime(date_str, '%Y%m%d'), in hours
strptime(date_str) == 24 * ((CHOOSE d \in 1..Len(CalendarDates) : CalendarDates[d] = date_str) - 1)

\* f"{n:02d}" and f"{n:03d}"
Pad2(n) ==
    IF n < 10 THEN <<0, n>>
    ELSE IF n < 100 THEN <<n \div 10, n % 10>>
    ELSE <<n \div 100, (n \div 10) % 10, n % 10>>
Pad3(n) ==
    IF n < 1000 THEN <<n \div 100, (n \div 10) % 10, n % 10>>
    ELSE <<n \div 1000, (n \div 100) % 10, (n \div 10) % 10, n % 10>>

----------------------------------------------------------------------------
(* Remote identifiers as each place of the code builds them *)

Models == {"hrrr", "rap", "gfs"}

hrrr_filename(run_hour, fh) == [stem |-> "hrrr.t{}z.wrfsfcf{}.grib2", run |-> Pad2(run_hour), fh |-> Pad2(fh)]
rap_filename(run_hour, fh) == [stem |-> "rap.t{}z.awp130pgrbf{}.grib2", run |-> Pad2(run_hour), fh |-> Pad2(fh)]
gfs_filename(run_hour, fh) == [stem |-> "gfs.t{}z.pgrb2.0p25.f{}", run |-> Pad2(run_hour), fh |-> Pad3(fh)]

\* base_url + filename; run_dir is <<>> when the path has no run-hour directory
MkUrl(product, date_str, run_dir, sub_dir, fname) ==
    [product |-> product, date |-> date_str, run_dir |-> run_dir, sub_dir |-> sub_dir, file |-> fname]

\* wind_profiler.download_forecast_file
url_download(m, date_str, run_hour, fh) ==
    IF m = "hrrr" THEN MkUrl("hrrr/prod/hrrr.", date_str, <<>>, "conus/", hrrr_filename(run_hour, fh))
    ELSE IF m = "rap" THEN MkUrl("rap/prod/rap.", date_str, <<>>, "", rap_filename(run_hour, fh))
    ELSE MkUrl("gfs/prod/gfs.", date_str, Pad2(run_hour), "atmos/", gfs_filename(run_hour, fh))

\* wind_profiler.check_forecast_availability
url_check_availability(m, date_str, run_hour, fh) ==
    IF m = "hrrr" THEN MkUrl("hrrr/prod/hrrr.", date_str, <<>>, "conus/", hrrr_filename(run_hour, fh))
    ELSE IF m = "rap" THEN MkUrl("rap/prod/rap.", date_str, <<>>, "", rap_filename(run_hour, fh))
    ELSE MkUrl("gfs/prod/gfs.", date_str, Pad2(run_hour), "atmos/", gfs_filename(run_hour, fh))

\* wind_profiler.find_available_run_hour
url_find_run(m, date_str, run_hour, fh) ==
    IF m = "hrrr" THEN MkUrl("hrrr/prod/hrrr.", date_str, <<>>, "conus/", hrrr_filename(run_hour, fh))
    ELSE IF m = "rap" THEN MkUrl("rap/prod/rap.", date_str, <<>>, "", rap_filename(run_hour, fh))
    ELSE MkUrl("gfs/prod/gfs.", date_str, Pad2(run_hour), "atmos/", gfs_filename(run_hour, fh))

\* wind_profiler.get_user_input, auto mode: base_url + filename_template.format(...)
url_auto(m, date_str, run_hour, fh) ==
    IF m = "hrrr" THEN MkUrl("hrrr/prod/hrrr.", date_str, <<>>, "conus/", hrrr_filename(run_hour, fh))
    ELSE IF m = "rap" THEN MkUrl("rap/prod/rap.", date_str, <<>>, "", rap_filename(run_hour, fh))
    ELSE MkUrl("gfs/prod/gfs.", date_str, Pad2(run_hour), "atmos/", gfs_filename(run_hour, fh))

\* wind_profiler.get_user_input, GFS hour 0 ("latest") scan: base_url is gfs.{date_str}/
url_latest(date_str, run_hour, fh) ==
    MkUrl("gfs/prod/gfs.", date_str, <<>>, "", gfs_filename(run_hour, fh))

\* raw_data_viewer.find_latest_available_run_hour and download_forecast_file
raw_filename(m, run_hour, fh) ==
    IF m = "gfs" THEN gfs_filename(run_hour, fh) ELSE hrrr_filename(run_hour, fh)
url_raw(m, date_str, run_hour, fh) ==
    IF m = "gfs" THEN MkUrl("gfs/prod/gfs.", date_str, Pad2(run_hour), "", gfs_filename(run_hour, fh))
    ELSE MkUrl("hrrr/prod/hrrr.", date_str, <<>>, "conus/", hrrr_filename(run_hour, fh))

\* winds_from_grib2.download_latest_gfs_file
url_gfs_script(date_str, run_hour) ==
    MkUrl("gfs/prod/gfs.", date_str, Pad2(run_hour), "atmos/", gfs_filename(run_hour, 0))

----------------------------------------------------------------------------
(* Forecast-hour legality *)

\* wind_profiler.get_available_forecast_hours
get_available_forecast_hours(m) ==
    IF m = "hrrr" THEN 0..18
    ELSE IF m = "rap" THEN 0..21
    ELSE IF m = "gfs" THEN {h \in 0..120 : h % 3 = 0} \cup {h \in 126..384 : h % 6 = 0}
    ELSE {}
\* ... which raises ValueError("Unknown model type") for any other name
get_available_forecast_hours_raises(m) == m \notin {"hrrr", "rap", "gfs"}

\* raw_data_viewer.get_available_forecast_hours
raw_get_available_forecast_hours(m) ==
    IF m = "gfs" THEN {h \in 0..384 : h % 6 = 0} ELSE 0..18
\* ... whose else branch takes every other name: it never raises
raw_get_available_forecast_hours_raises(m) == FALSE

----------------------------------------------------------------------------
(* Existence probes *)

\* what urlopen does for one identifier: a response, an HTTPError (no such
\* file), or a URLError / timeout
probe(url, store, failing) ==
    IF url \in failing THEN "net_error"
    ELSE IF url \in store THEN "ok"
    ELSE "http_error"

\* a handler that lets a timeout fall through to the code after the try block
probe_succeeds_unless_http_error(outcome) == outcome # "http_error"

\* try: urlopen(...) ... return  /  except: continue
probe_succeeds(outcome) == outcome = "ok"

----------------------------------------------------------------------------
(* Run scans of wind_profiler.py *)

\* the (run_hour, date_str) the loop over hours_back computes
run_cycle(m, check_time) ==
    [run_hour |-> IF m = "gfs" THEN HourOf(check_time) - (HourOf(check_time) % 6) ELSE HourOf(check_time),
     date_str |-> strftime(check_time)]

\* check_forecast_availability(forecast_hour, model_type) at time now
check_forecast_availability(fh, m, now, store, failing) ==
    LET backs == IF m = "gfs" THEN PyRange(0, 24, 6) ELSE PyRange(0, 3, 1)
        cand(i) == run_cycle(m, now - backs[i])
    IN  \E i \in 1..Len(backs) :
            probe_succeeds(probe(url_check_availability(m, cand(i).date_str, cand(i).run_hour, fh), store, failing))

\* candidates of find_available_run_hour, in scan order
find_run_candidates(m, now) ==
    LET backs == IF m = "gfs" THEN PyRange(0, 48, 6) ELSE PyRange(0, 6, 1)
    IN  [i \in 1..Len(backs) |-> run_cycle(m, now - backs[i])]

\* find_available_run_hour(forecast_hour, model_type) at time now; "via" records
\* which return statement produced the value
find_available_run_hour(fh, m, now, store, failing) ==
    LET cands == find_run_candidates(m, now)
        hits == {i \in 1..Len(cands) :
                    probe_succeeds(probe(url_find_run(m, cands[i].date_str, cands[i].run_hour, fh), store, failing))}
    IN  IF hits # {}
        THEN [run_hour |-> cands[SetMin(hits)].run_hour, date_str |-> cands[SetMin(hits)].date_str, via |-> "probe"]
        ELSE [run_hour |-> run_cycle(m, now).run_hour, date_str |-> strftime(now), via |-> "fallback"]

----------------------------------------------------------------------------
(* Run scan of raw_data_viewer.py *)

\* candidates of find_latest_available_run_hour, in scan order; the date is
\* that of now (now.replace(hour=run_hour) keeps the day)
find_latest_candidates(m, now) ==
    LET offs == IF m = "gfs" THEN PyRange(0, 24, 6) ELSE PyRange(0, 24, 1)
        raw_hour(off) == IF m = "gfs" THEN ((HourOf(now) - off) \div 6) * 6 ELSE HourOf(now) - off
    IN  [i \in 1..Len(offs) |->
            [run_hour |-> IF raw_hour(offs[i]) < 0 THEN raw_hour(offs[i]) + 24 ELSE raw_hour(offs[i]),
             date_str |-> strftime(now)]]

\* find_latest_available_run_hour(forecast_hour, model_type) at time now
find_latest_available_run_hour(fh, m, now, store, failing, files) ==
    LET cands == find_latest_candidates(m, now)
        cached(i) == raw_filename(m, cands[i].run_hour, fh) \in files
        hits == {i \in 1..Len(cands) :
                    \/ cached(i)
                    \/ probe_succeeds(probe(url_raw(m, cands[i].date_str, cands[i].run_hour, fh), store, failing))}
    IN  IF hits # {}
        THEN [run_hour |-> cands[SetMin(hits)].run_hour, date_str |-> cands[SetMin(hits)].date_str,
              via |-> IF cached(SetMin(hits)) THEN "cache" ELSE "probe"]
        ELSE [run_hour |-> IF m = "gfs" THEN (HourOf(now) \div 6) * 6 ELSE HourOf(now),
              date_str |-> strftime(now), via |-> "fallback"]

----------------------------------------------------------------------------
(* Specification SpecScan: the resolver functions called with any legal     *)
(* forecast hour, against every content of a bounded remote store          *)

scanVars == <<script, clock, remote, localFiles, pc, model_type, forecast_hour, scan, errs, checked>>
reqVars == <<mode, available_hours, filename, file_url, ret, auto, ticks, hist>>
gridVars == <<ds, target, cell>>
profVars == <<location, DTED_AVAILABLE, dted0, elev, column, max_elevation_ft, altitude_reference,
              ground_elevation_ft, df>>
vars == <<scanVars, reqVars, gridVars, profVars>>

\* an identifier and a file name that denote nothing
NoUrl == [product |-> "", date |-> 0, run_dir |-> <<>>, sub_dir |-> "", file |-> [stem |-> "", run |-> <<>>, fh |-> <<>>]]
NoFile == [stem |-> "", run |-> <<>>, fh |-> <<>>]
\* best_fh = None
NoHour == -1
\* freshest_time = None
NoTime == -1

\* locals of the auto loop before its first iteration
NoAuto ==
    [i |-> 0, now |-> 0, best_fh |-> NoHour, best_valid_time |-> NoTime,
     freshest_model |-> "", freshest_time |-> NoTime,
     freshest_info |-> [forecast_hour |-> NoHour, run_hour |-> 0, date_str |-> 0, filename |-> NoFile, url |-> NoUrl]]

\* history: the last remote interaction or prompt, what preceded the
\* transfer, whether any remote interaction was issued, whether the requested
\* hour was checked / rejected and when, why the request failed, how many
\* probes raised a network error, whether the cache prompt was answered,
\* whether a transfer wrote over a file that was there, and which run's data
\* the file the request ends with holds
NoArtifact == [date |-> 0, run |-> <<>>, fh |-> <<>>]
NoStep == [kind |-> "none", url |-> NoUrl, ok |-> FALSE]
NoHist ==
    [last |-> NoStep, xfer_started |-> FALSE, xfer_url |-> NoUrl, xfer_prev |-> NoStep,
     remote_issued |-> FALSE, hour_checked |-> FALSE, checked_after_remote |-> FALSE,
     rejected |-> FALSE, cause |-> "none", net_errors |-> 0,
     prompted |-> FALSE, replaced |-> FALSE, artifact |-> NoArtifact]

IdleRequest ==
    /\ mode = "explicit"
    /\ available_hours = {}
    /\ filename = NoFile
    /\ file_url = NoUrl
    /\ ret = "none"
    /\ auto = NoAuto
    /\ ticks = 0
    /\ hist = NoHist

NoScan == [run_hour |-> 0, date_str |-> 0, via |-> "none"]

\* no dataset decoded yet
NoCell == [lat_idx |-> -1, lon_idx |-> -1]
IdleGrid ==
    /\ ds = "none"
    /\ target = [lat |-> 0, lon |-> 0]
    /\ cell = NoCell

\* a rational number is a record of numerator n and denominator d > 0 in
\* lowest terms; None where a number is expected has denominator 0
NoElevation == [n |-> 0, d |-> 0]
\* a tile path that denotes nothing (None)
NoPath == [lon_prefix |-> [hemi |-> "", deg |-> <<>>], lat_prefix |-> [hemi |-> "", deg |-> <<>>]]
\* history of the ground elevation: whether the terrain lookup ran and what
\* it returned, the path get_dted0_filename returned, the value typed
NoElev == [lookup |-> "none", filepath |-> NoPath, typed |-> NoElevation]
\* no tile files
NoDted == [files |-> {}, readable |-> FALSE, elevations |-> <<>>]
\* nothing typed, nothing extracted, no table yet
NoTable == [altitude_label |-> "", rows |-> <<>>]
IdleProfile ==
    /\ location = [lat |-> 0, lon |-> 0]
    /\ DTED_AVAILABLE = FALSE
    /\ dted0 = NoDted
    /\ elev = NoElev
    /\ column = <<>>
    /\ max_elevation_ft = 1000
    /\ altitude_reference = "MSL"
    /\ ground_elevation_ft = [n |-> 0, d |-> 1]
    /\ df = NoTable

\* times "now" can take: shortly after midnight and in the afternoon of the
\* fourth day
ClockValues == {73, 86}

\* forecast hours the scans are asked for
ScanHours(s, m) ==
    IF m = "gfs" THEN {0, 6}
    ELSE {0, 2, 5} \cap (IF s = "raw_data_viewer" THEN raw_get_available_forecast_hours(m)
                         ELSE get_available_forecast_hours(m))

\* run times of the model's newest cycles at or before now
RecentCycles(m, now) ==
    IF m = "gfs" THEN {(now - (now % 6)) - 6 * k : k \in 0..StoreDepth}
    ELSE {now - k : k \in 0..StoreDepth}

\* the identifier under which the script expects the artifact of a cycle
ScriptUrl(s, m, t, fh) ==
    IF s = "raw_data_viewer" THEN url_raw(m, strftime(t), HourOf(t), fh)
    ELSE url_download(m, strftime(t), HourOf(t), fh)

\* artifacts of the requested hour that may or may not be published
StoreUniverse(s, m, fh, now) == {ScriptUrl(s, m, t, fh) : t \in RecentCycles(m, now)}

\* the first hours of the cycle before the newest one, always published
Background(s, m, fh, now) ==
    IF m = "gfs" THEN {}
    ELSE {ScriptUrl(s, m, now - 1, h) : h \in {0, 1, 2} \ {fh}}

InitScan ==
    /\ script \in {"wind_profiler", "raw_data_viewer"}
    /\ model_type \in (IF script = "raw_data_viewer" THEN {"hrrr", "gfs"} ELSE Models)
    /\ forecast_hour \in ScanHours(script, model_type)
    /\ clock \in ClockValues
    /\ \E pub \in SUBSET StoreUniverse(script, model_type, forecast_hour, clock) :
          remote = pub \cup Background(script, model_type, forecast_hour, clock)
    /\ localFiles \in
          IF script = "raw_data_viewer"
          THEN {{}} \cup {{raw_filename(model_type, HourOf(t), forecast_hour)} :
                            t \in RecentCycles(model_type, clock)}
          ELSE {{}}
    /\ pc = "call"
    /\ scan = NoScan
    /\ errs = {}
    /\ checked = FALSE
    /\ IdleRequest
    /\ IdleGrid
    /\ IdleProfile

\* wind_profiler: find_available_run_hour(forecast_hour, model_type)
CallFindAvailableRunHour ==
    /\ pc = "call"
    /\ script = "wind_profiler"
    /\ \E failing \in SUBSET remote :
          /\ scan' = find_available_run_hour(forecast_hour, model_type, clock, remote, failing)
          /\ errs' = failing
    /\ pc' = "returned"
    /\ UNCHANGED <<gridVars, profVars, script, clock, remote, localFiles, model_type, forecast_hour, checked, reqVars>>

\* wind_profiler: check_forecast_availability(forecast_hour, model_type)
CallCheckForecastAvailability ==
    /\ pc = "call"
    /\ script = "wind_profiler"
    /\ \E failing \in SUBSET remote :
          /\ checked' = check_forecast_availability(forecast_hour, model_type, clock, remote, failing)
          /\ errs' = failing
    /\ pc' = "checked"
    /\ UNCHANGED <<gridVars, profVars, script, clock, remote, localFiles, model_type, forecast_hour, scan, reqVars>>

\* raw_data_viewer: find_latest_available_run_hour(forecast_hour, model_type)
CallFindLatestAvailableRunHour ==
    /\ pc = "call"
    /\ script = "raw_data_viewer"
    /\ \E failing \in SUBSET remote :
          /\ scan' = find_latest_available_run_hour(forecast_hour, model_type, clock, remote, failing, localFiles)
          /\ errs' = failing
    /\ pc' = "returned"
    /\ UNCHANGED <<gridVars, profVars, script, clock, remote, localFiles, model_type, forecast_hour, checked, reqVars>>

NextScan ==
    \/ CallFindAvailableRunHour
    \/ CallCheckForecastAvailability
    \/ CallFindLatestAvailableRunHour

SpecScan == InitScan /\ [][NextScan]_vars

----------------------------------------------------------------------------
(* Claims about the run scans (SpecScan) *)

\* the candidates of the scan the script ran, and the identifier it probes
ScanCandidates ==
    IF script = "raw_data_viewer" THEN find_latest_candidates(model_type, clock)
    ELSE find_run_candidates(model_type, clock)
ScanUrl(c) ==
    IF script = "raw_data_viewer" THEN url_raw(model_type, c.date_str, c.run_hour, forecast_hour)
    ELSE url_find_run(model_type, c.date_str, c.run_hour, forecast_hour)
\* the run time a (run date, run hour) denotes
CycleTime(c) == strptime(c.date_str) + c.run_hour
AllProbesFailed ==
    \A i \in 1..Len(ScanCandidates) : probe(ScanUrl(ScanCandidates[i]), remote, errs) # "ok"

\* C1: when the scan selects a cycle (no probe having raised a network error),
\* the artifact of that cycle exists remotely and no newer candidate of the
\* lookback has an existing artifact.
C1_SelectsNewestExisting ==
    (pc = "returned" /\ errs = {} /\ scan.via \in {"probe", "cache"}) =>
        /\ ScanUrl(scan) \in remote
        /\ \A i \in 1..Len(ScanCandidates) :
              CycleTime(ScanCandidates[i]) > CycleTime(scan) => ScanUrl(ScanCandidates[i]) \notin remote

\* C2: when the probe of every candidate cycle failed, the resolver returns
\* no (run date, run hour): resolution ends Unavailable.
C2_ExhaustedScanIsUnavailable ==
    (pc = "returned" /\ AllProbesFailed) => scan.via \notin {"probe", "cache", "fallback"}

\* C3: a probe that raised a network error or timed out counts as a negative
\* result for its candidate only: the scan returns what it returns against a
\* store in which the identifiers of those probes do not exist.
C3_ProbeErrorIsNegative ==
    /\ (pc = "returned" /\ script = "wind_profiler") =>
          scan = find_available_run_hour(forecast_hour, model_type, clock, remote \ errs, {})
    /\ (pc = "returned" /\ script = "raw_data_viewer") =>
          scan = find_latest_available_run_hour(forecast_hour, model_type, clock, remote \ errs, {}, localFiles)
    /\ pc = "checked" =>
          checked = check_forecast_availability(forecast_hour, model_type, clock, remote \ errs, {})

\* a probe of a newer candidate timed out and the scan went on to select an
\* older cycle
C3_Witness ==
    /\ pc = "returned"
    /\ scan.via = "probe"
    /\ \E i \in 1..Len(ScanCandidates) :
          /\ CycleTime(ScanCandidates[i]) > CycleTime(scan)
          /\ ScanUrl(ScanCandidates[i]) \in errs

----------------------------------------------------------------------------
(* Operations of a request *)

ProductOf(m) == IF m = "hrrr" THEN "hrrr/prod/hrrr." ELSE IF m = "rap" THEN "rap/prod/rap." ELSE "gfs/prod/gfs."
\* the identifiers of the store that probes for model m can reach
Relevant(store, m) == {u \in store : u.product = ProductOf(m)}
\* the probes of one call that raise a network error, used of them having
\* raised one earlier in the request
FailingSets(S, used) == {F \in SUBSET S : Cardinality(F) + used <= MaxErrors}

\* identifiers check_forecast_availability probes, in order
check_availability_urls(fh, m, now) ==
    LET backs == IF m = "gfs" THEN PyRange(0, 24, 6) ELSE PyRange(0, 3, 1)
    IN  [i \in 1..Len(backs) |->
            url_check_availability(m, run_cycle(m, now - backs[i]).date_str, run_cycle(m, now - backs[i]).run_hour, fh)]
find_run_urls(fh, m, now) ==
    LET cands == find_run_candidates(m, now)
    IN  [i \in 1..Len(cands) |-> url_find_run(m, cands[i].date_str, cands[i].run_hour, fh)]
\* the last probe a loop that returns on its first success issues
last_probed(urls, store, failing) ==
    LET hits == {i \in 1..Len(urls) : probe_succeeds(probe(urls[i], store, failing))}
    IN  IF hits = {} THEN [kind |-> "probe", url |-> urls[Len(urls)], ok |-> FALSE]
        ELSE [kind |-> "probe", url |-> urls[SetMin(hits)], ok |-> TRUE]

\* get_immediately_available_hours(model_type) at time now
get_immediately_available_hours(m, now, store, failing) ==
    {h \in get_available_forecast_hours(m) : check_forecast_availability(h, m, now, store, failing)} \cup {0}

\* get_user_input, GFS hour 0: urllib is a local name of get_user_input
\* (import urllib.request in the auto branch) and is unbound on this path, so
\* urllib.request.Request raises UnboundLocalError before anything is sent
latest_probe(url, store, failing) == "unbound_local_error"

\* get_user_input, GFS hour 0: the scan over runs and forecast hours
gfs_latest_scan(now, store, failing) ==
    LET backs == PyRange(0, 25, 6)
        fhs == PyRange(0, 85, 3)
        hits == {p \in (1..Len(backs)) \X (1..Len(fhs)) :
                    probe_succeeds(latest_probe(
                        url_latest(run_cycle("gfs", now - backs[p[1]]).date_str,
                                   run_cycle("gfs", now - backs[p[1]]).run_hour, fhs[p[2]]),
                        store, failing))}
        first == CHOOSE p \in hits : \A q \in hits : p[1] < q[1] \/ (p[1] = q[1] /\ p[2] <= q[2])
    IN  IF hits = {} THEN [found |-> FALSE, forecast_hour |-> 0]
        ELSE [found |-> TRUE, forecast_hour |-> fhs[first[2]]]

\* main: valid_time = run_date + timedelta(hours=run_hour + forecast_hour)
valid_time(date_str, run_hour, fh) == strptime(date_str) + run_hour + fh

\* what download_forecast_file returns when its HEAD check fails
download_unavailable_return == "None, None, None"
\* what download_forecast_file returns when urlretrieve raises
download_failed_return == "None, None, None"

\* run dates whose data a file found in the working directory may hold: a
\* local file name carries run hour and forecast hour but no date, so the file
\* is of the run of that hour of date_str or of the day before
CachedContentDates(date_str) == {date_str, strftime(strptime(date_str) - 24)}
\* history after a file of the working directory was taken as the artifact
AfterCached(h, fname, date) == [h EXCEPT !.artifact = [date |-> date, run |-> fname.run, fh |-> fname.fh]]

\* history after a probe, a prompt, the start of a transfer
AfterProbe(h, step, raised) ==
    [h EXCEPT !.last = step, !.remote_issued = TRUE, !.net_errors = @ + Cardinality(raised)]
AfterPrompt(h) == [h EXCEPT !.last = [kind |-> "prompt", url |-> NoUrl, ok |-> TRUE], !.prompted = TRUE]
AfterTransfer(h, url, failed, raised, existed) ==
    [h EXCEPT !.last = [kind |-> "transfer", url |-> url, ok |-> ~failed], !.remote_issued = TRUE,
              !.xfer_started = TRUE, !.xfer_url = url, !.xfer_prev = h.last,
              !.net_errors = @ + Cardinality(raised),
              !.replaced = existed /\ ~failed,
              !.artifact = IF failed THEN @ ELSE [date |-> url.date, run |-> url.file.run, fh |-> url.file.fh],
              !.cause = IF failed THEN "transfer_failed" ELSE @]
\* the transfer never returned
AfterHang(h, url) == [AfterTransfer(h, url, TRUE, {}, FALSE) EXCEPT !.cause = "hung"]

\* urllib.request.urlretrieve(url, filename): it takes no timeout and no
\* default socket timeout is set, so an endpoint that accepts the connection
\* and never responds (stalled) is waited for without end; otherwise it
\* succeeds or raises as a probe of the same identifier does
urlretrieve(url, store, failing, stalled) ==
    IF stalled THEN "hang" ELSE probe(url, store, failing)

----------------------------------------------------------------------------
(* wind_profiler.py, explicit model *)

\* hours typed at "Enter forecast hour"
HourInputs == {0, 1, 6, 19}

\* get_user_input: "Select model (1=HRRR, 2=RAP, 3=GFS, 4=Auto)", or GFS
\* outside CONUS
ChooseModel ==
    /\ script = "wind_profiler"
    /\ pc = "input_model"
    /\ \E choice \in {"hrrr", "rap", "gfs", "auto"} :
          IF choice = "auto"
          THEN /\ mode' = "auto"
               /\ auto' = [NoAuto EXCEPT !.now = clock, !.i = 1]
               /\ pc' = "auto_hours"
               /\ UNCHANGED model_type
          ELSE /\ mode' = "explicit"
               /\ model_type' = choice
               /\ pc' = "list_hours"
               /\ UNCHANGED auto
    /\ UNCHANGED <<gridVars, profVars, script, clock, remote, localFiles, forecast_hour, scan, errs, checked,
                   available_hours, filename, file_url, ret, ticks, hist>>

\* get_user_input: available_hours = get_immediately_available_hours(model_type)
ListHours ==
    /\ script = "wind_profiler"
    /\ pc = "list_hours"
    /\ \E failing \in FailingSets(Relevant(remote, model_type), hist.net_errors) :
          /\ available_hours' = get_immediately_available_hours(model_type, clock, remote, failing)
          /\ hist' = AfterProbe(hist,
                        last_probed(check_availability_urls(SetMax(get_available_forecast_hours(model_type)),
                                                            model_type, clock), remote, failing),
                        failing)
    /\ pc' = "input_hour"
    /\ UNCHANGED <<gridVars, profVars, script, clock, remote, localFiles, model_type, forecast_hour, scan, errs, checked,
                   mode, filename, file_url, ret, auto, ticks>>

\* get_user_input: one round of the "Enter forecast hour" loop
EnterHour ==
    /\ script = "wind_profiler"
    /\ pc = "input_hour"
    /\ \E h \in HourInputs :
          IF h = 0 /\ model_type = "gfs"
          THEN IF gfs_latest_scan(clock, remote, {}).found
               THEN /\ forecast_hour' = gfs_latest_scan(clock, remote, {}).forecast_hour
                    /\ pc' = "download"
                    /\ hist' = [hist EXCEPT !.hour_checked = TRUE, !.checked_after_remote = hist.remote_issued]
                    /\ UNCHANGED ret
               ELSE /\ pc' = "gfs_exit"
                    /\ ret' = "NoGFSDataError"
                    /\ hist' = [hist EXCEPT !.hour_checked = TRUE, !.checked_after_remote = hist.remote_issued,
                                            !.cause = "scan_exhausted"]
                    /\ UNCHANGED forecast_hour
          ELSE IF h \in available_hours
          THEN /\ forecast_hour' = h
               /\ pc' = "download"
               /\ hist' = [hist EXCEPT !.hour_checked = TRUE, !.checked_after_remote = hist.remote_issued]
               /\ UNCHANGED ret
          ELSE /\ hist' = [hist EXCEPT !.hour_checked = TRUE, !.checked_after_remote = hist.remote_issued,
                                       !.rejected = TRUE]
               /\ UNCHANGED <<forecast_hour, pc, ret>>
    /\ UNCHANGED <<gridVars, profVars, script, clock, remote, localFiles, model_type, scan, errs, checked,
                   mode, available_hours, filename, file_url, auto, ticks>>

\* get_user_input: EOFError at the prompt
InputInterrupted ==
    /\ script = "wind_profiler"
    /\ pc = "input_hour"
    /\ pc' = "gfs_exit"
    /\ ret' = "NoGFSDataError"
    /\ UNCHANGED <<gridVars, profVars, script, clock, remote, localFiles, model_type, forecast_hour, scan, errs, checked,
                   mode, available_hours, filename, file_url, auto, ticks, hist>>

\* download_forecast_file: find_available_run_hour and the identifier
DownloadResolve ==
    /\ script = "wind_profiler"
    /\ pc = "download"
    /\ \E failing \in FailingSets(Relevant(remote, model_type), hist.net_errors) :
          LET r == find_available_run_hour(forecast_hour, model_type, clock, remote, failing)
          IN  /\ scan' = r
              /\ filename' = url_download(model_type, r.date_str, r.run_hour, forecast_hour).file
              /\ file_url' = url_download(model_type, r.date_str, r.run_hour, forecast_hour)
              /\ hist' = AfterProbe(hist, last_probed(find_run_urls(forecast_hour, model_type, clock), remote, failing),
                                    failing)
    /\ pc' = "head_check"
    /\ UNCHANGED <<gridVars, profVars, errs, script, clock, remote, localFiles, model_type, forecast_hour, checked,
                   mode, available_hours, ret, auto, ticks>>

\* download_forecast_file: "Final HEAD check before download"
DownloadHeadCheck ==
    /\ script = "wind_profiler"
    /\ pc = "head_check"
    /\ \E failing \in FailingSets({file_url} \cap remote, hist.net_errors) :
          LET ok == probe_succeeds(probe(file_url, remote, failing))
          IN  /\ hist' = [AfterProbe(hist, [kind |-> "probe", url |-> file_url, ok |-> ok], failing)
                             EXCEPT !.cause = IF ok THEN @ ELSE "probe_failed"]
              /\ IF ~ok
                 THEN ret' = download_unavailable_return /\ pc' = "no_file_exit"
                 ELSE ret' = ret /\ pc' = (IF filename \in localFiles THEN "cache_prompt" ELSE "transfer")
    /\ UNCHANGED <<gridVars, profVars, script, clock, remote, localFiles, model_type, forecast_hour, scan, errs, checked,
                   mode, available_hours, filename, file_url, auto, ticks>>

\* download_forecast_file: "Use cached file or download fresh? (c/d)"
CachePrompt ==
    /\ script = "wind_profiler"
    /\ pc = "cache_prompt"
    /\ \E choice \in {"c", "d"} :
          IF choice = "c"
          THEN /\ ret' = "filename, run_hour, date_str"
               /\ pc' = "loaded"
               /\ \E date \in CachedContentDates(scan.date_str) :
                     hist' = AfterCached(AfterPrompt(hist), filename, date)
               /\ UNCHANGED localFiles
          ELSE /\ localFiles' = localFiles \ {filename}
               /\ pc' = "transfer"
               /\ hist' = AfterPrompt(hist)
               /\ UNCHANGED ret
    /\ UNCHANGED <<gridVars, profVars, script, clock, remote, model_type, forecast_hour, scan, errs, checked,
                   mode, available_hours, filename, file_url, auto, ticks>>

\* download_forecast_file: urllib.request.urlretrieve(file_url, filename)
Transfer ==
    /\ script = "wind_profiler"
    /\ pc = "transfer"
    /\ \E failing \in FailingSets({file_url} \cap remote, hist.net_errors), stalled \in BOOLEAN :
          LET outcome == urlretrieve(file_url, remote, failing, stalled)
              ok == outcome = "ok"
          IN  IF outcome = "hang"
              THEN /\ hist' = AfterHang(hist, file_url)
                   /\ pc' = "hung"
                   /\ UNCHANGED <<localFiles, ret>>
              ELSE /\ hist' = AfterTransfer(hist, file_url, ~ok, failing, filename \in localFiles)
                   /\ IF ok
                      THEN /\ localFiles' = localFiles \cup {filename}
                           /\ ret' = "filename, run_hour, date_str"
                           /\ pc' = "loaded"
                      ELSE /\ localFiles' = localFiles
                           /\ ret' = download_failed_return
                           /\ pc' = "no_file_exit"
    /\ UNCHANGED <<gridVars, profVars, script, clock, remote, model_type, forecast_hour, scan, errs, checked,
                   mode, available_hours, filename, file_url, auto, ticks>>

----------------------------------------------------------------------------
(* wind_profiler.py, auto mode ("4. Auto (Most Current Available)") *)

\* for m in ['hrrr', 'rap', 'gfs']
AutoOrder == <<"hrrr", "rap", "gfs">>

\* the hour the loop over available_hours picks with the guard dropped
best_forecast_hour_unguarded(hours, date_str, run_hour, now) ==
    CHOOSE fh \in hours : \A g \in hours : valid_time(date_str, run_hour, fh) >= valid_time(date_str, run_hour, g)

\* "Find the forecast hour whose valid time is closest to now but not after"
best_forecast_hour(hours, date_str, run_hour, now) ==
    LET past == {fh \in hours : valid_time(date_str, run_hour, fh) <= now}
    IN  IF past = {} THEN NoHour
        ELSE CHOOSE fh \in past :
                \A g \in past : valid_time(date_str, run_hour, fh) >= valid_time(date_str, run_hour, g)

\* continue / end of one iteration of the loop over the models
AutoAdvance(a) == [a EXCEPT !.i = @ + 1, !.best_fh = NoHour, !.best_valid_time = NoTime]
AutoNextPc(a) == IF a.i >= Len(AutoOrder) THEN "auto_select" ELSE "auto_hours"

\* auto loop: available_hours = get_immediately_available_hours(m)
AutoHours ==
    /\ script = "wind_profiler"
    /\ pc = "auto_hours"
    /\ \E failing \in FailingSets(Relevant(remote, AutoOrder[auto.i]), hist.net_errors) :
          /\ available_hours' = get_immediately_available_hours(AutoOrder[auto.i], clock, remote, failing)
          /\ hist' = AfterProbe(hist,
                        last_probed(check_availability_urls(SetMax(get_available_forecast_hours(AutoOrder[auto.i])),
                                                            AutoOrder[auto.i], clock), remote, failing),
                        failing)
    /\ pc' = "auto_run"
    /\ UNCHANGED <<gridVars, profVars, script, clock, remote, localFiles, model_type, forecast_hour, scan, errs, checked,
                   mode, filename, file_url, ret, auto, ticks>>

\* auto loop: find_available_run_hour(0, m) and the choice of best_fh
AutoRun ==
    /\ script = "wind_profiler"
    /\ pc = "auto_run"
    /\ \E failing \in FailingSets(Relevant(remote, AutoOrder[auto.i]), hist.net_errors) :
          LET r == find_available_run_hour(0, AutoOrder[auto.i], clock, remote, failing)
              best == best_forecast_hour(available_hours, r.date_str, r.run_hour, auto.now)
          IN  /\ scan' = r
              /\ hist' = AfterProbe(hist, last_probed(find_run_urls(0, AutoOrder[auto.i], clock), remote, failing),
                                    failing)
              /\ IF best = NoHour
                 THEN auto' = AutoAdvance(auto) /\ pc' = AutoNextPc(auto)
                 ELSE /\ auto' = [auto EXCEPT !.best_fh = best,
                                             !.best_valid_time = valid_time(r.date_str, r.run_hour, best)]
                      /\ pc' = "auto_probe"
    /\ UNCHANGED <<gridVars, profVars, script, clock, remote, localFiles, model_type, forecast_hour, errs, checked,
                   mode, available_hours, filename, file_url, ret, ticks>>

\* auto loop: "HEAD request only" for the chosen hour of the chosen run
AutoProbe ==
    /\ script = "wind_profiler"
    /\ pc = "auto_probe"
    /\ LET m == AutoOrder[auto.i]
           url == url_auto(m, scan.date_str, scan.run_hour, auto.best_fh)
       IN  \E failing \in FailingSets({url} \cap remote, hist.net_errors) :
              LET ok == probe_succeeds(probe(url, remote, failing))
              IN  /\ hist' = AfterProbe(hist, [kind |-> "probe", url |-> url, ok |-> ok], failing)
                  /\ IF ok /\ (auto.freshest_time = NoTime \/ auto.best_valid_time > auto.freshest_time)
                     THEN auto' = [AutoAdvance(auto) EXCEPT
                                      !.freshest_time = auto.best_valid_time,
                                      !.freshest_model = m,
                                      !.freshest_info = [forecast_hour |-> auto.best_fh, run_hour |-> scan.run_hour,
                                                         date_str |-> scan.date_str, filename |-> url.file, url |-> url]]
                     ELSE auto' = AutoAdvance(auto)
    /\ pc' = AutoNextPc(auto)
    /\ UNCHANGED <<gridVars, profVars, script, clock, remote, localFiles, model_type, forecast_hour, scan, errs, checked,
                   mode, available_hours, filename, file_url, ret, ticks>>

\* after the loop: exit(1) when no model was found, else the selection
AutoSelect ==
    /\ script = "wind_profiler"
    /\ pc = "auto_select"
    /\ IF auto.freshest_model = ""
       THEN /\ pc' = "sys_exit"
            /\ ret' = "exit(1)"
            /\ hist' = [hist EXCEPT !.cause = "scan_exhausted"]
            /\ UNCHANGED <<model_type, forecast_hour, scan, filename, file_url>>
       ELSE /\ model_type' = auto.freshest_model
            /\ forecast_hour' = auto.freshest_info.forecast_hour
            /\ scan' = [run_hour |-> auto.freshest_info.run_hour, date_str |-> auto.freshest_info.date_str,
                        via |-> "auto"]
            /\ filename' = auto.freshest_info.filename
            /\ file_url' = auto.freshest_info.url
            /\ pc' = "auto_transfer"
            /\ UNCHANGED <<ret, hist>>
    /\ UNCHANGED <<gridVars, profVars, script, clock, remote, localFiles, errs, checked, mode, available_hours, auto, ticks>>

\* "Download only the selected file": urlretrieve outside any try block
AutoTransfer ==
    /\ script = "wind_profiler"
    /\ pc = "auto_transfer"
    /\ \E failing \in FailingSets({file_url} \cap remote, hist.net_errors), stalled \in BOOLEAN :
          LET outcome == urlretrieve(file_url, remote, failing, stalled)
              ok == outcome = "ok"
          IN  IF outcome = "hang"
              THEN /\ hist' = AfterHang(hist, file_url)
                   /\ pc' = "hung"
                   /\ UNCHANGED <<localFiles, ret>>
              ELSE /\ hist' = AfterTransfer(hist, file_url, ~ok, failing, filename \in localFiles)
                   /\ IF ok
                      THEN /\ localFiles' = localFiles \cup {filename}
                           /\ ret' = "lat, lon, max_elevation_ft, forecast_hour, model_type, filename, run_hour, date_str, altitude_reference, ground_elevation_ft"
                           /\ pc' = "loaded"
                      ELSE /\ localFiles' = localFiles
                           /\ ret' = "uncaught exception"
                           /\ pc' = "crash"
    /\ UNCHANGED <<gridVars, profVars, script, clock, remote, model_type, forecast_hour, scan, errs, checked,
                   mode, available_hours, filename, file_url, auto, ticks>>

----------------------------------------------------------------------------
(* raw_data_viewer.py *)

\* the last probe find_latest_available_run_hour issues, NoStep when it
\* returns on a cached file before any probe
raw_last_probed(fh, m, now, store, failing, files) ==
    LET cands == find_latest_candidates(m, now)
        cached(i) == raw_filename(m, cands[i].run_hour, fh) \in files
        url(i) == url_raw(m, cands[i].date_str, cands[i].run_hour, fh)
        hits == {i \in 1..Len(cands) : cached(i) \/ probe_succeeds(probe(url(i), store, failing))}
        stop == IF hits = {} THEN Len(cands) ELSE SetMin(hits)
    IN  IF hits # {} /\ cached(stop)
        THEN IF stop = 1 THEN NoStep ELSE [kind |-> "probe", url |-> url(stop - 1), ok |-> FALSE]
        ELSE [kind |-> "probe", url |-> url(stop), ok |-> hits # {}]

\* get_user_input: "Select model (1=HRRR, 2=GFS)", or GFS outside CONUS
RawChooseModel ==
    /\ script = "raw_data_viewer"
    /\ pc = "input_model"
    /\ model_type' \in {"hrrr", "gfs"}
    /\ pc' = "input_hour"
    /\ UNCHANGED <<gridVars, profVars, script, clock, remote, localFiles, forecast_hour, scan, errs, checked, reqVars>>

\* get_user_input: one round of the "Select forecast hour" loop
RawEnterHour ==
    /\ script = "raw_data_viewer"
    /\ pc = "input_hour"
    /\ \E h \in HourInputs :
          IF h \in raw_get_available_forecast_hours(model_type)
          THEN /\ forecast_hour' = h
               /\ pc' = "download"
               /\ hist' = [hist EXCEPT !.hour_checked = TRUE, !.checked_after_remote = hist.remote_issued]
          ELSE /\ hist' = [hist EXCEPT !.hour_checked = TRUE, !.checked_after_remote = hist.remote_issued,
                                       !.rejected = TRUE]
               /\ UNCHANGED <<forecast_hour, pc>>
    /\ UNCHANGED <<gridVars, profVars, script, clock, remote, localFiles, model_type, scan, errs, checked,
                   mode, available_hours, filename, file_url, ret, auto, ticks>>

\* download_forecast_file: find_latest_available_run_hour, the identifier and
\* os.path.exists(filename)
RawResolve ==
    /\ script = "raw_data_viewer"
    /\ pc = "download"
    /\ \E failing \in FailingSets(Relevant(remote, model_type), hist.net_errors) :
          LET r == find_latest_available_run_hour(forecast_hour, model_type, clock, remote, failing, localFiles)
              step == raw_last_probed(forecast_hour, model_type, clock, remote, failing, localFiles)
          IN  /\ scan' = r
              /\ filename' = raw_filename(model_type, r.run_hour, forecast_hour)
              /\ file_url' = url_raw(model_type, r.date_str, r.run_hour, forecast_hour)
              /\ hist' = IF step = NoStep THEN hist ELSE AfterProbe(hist, step, failing)
              /\ pc' = IF raw_filename(model_type, r.run_hour, forecast_hour) \in localFiles
                       THEN "cache_prompt" ELSE "transfer"
    /\ UNCHANGED <<gridVars, profVars, script, clock, remote, localFiles, model_type, forecast_hour, errs, checked,
                   mode, available_hours, ret, auto, ticks>>

\* download_forecast_file: "Use cached file or download fresh? (c/d)"
RawCachePrompt ==
    /\ script = "raw_data_viewer"
    /\ pc = "cache_prompt"
    /\ \E choice \in {"c", "d"} :
          IF choice = "c"
          THEN /\ ret' = "filename"
               /\ pc' = "loaded"
               /\ \E date \in CachedContentDates(scan.date_str) :
                     hist' = AfterCached(AfterPrompt(hist), filename, date)
               /\ UNCHANGED localFiles
          ELSE /\ localFiles' = localFiles \ {filename}
               /\ pc' = "transfer"
               /\ hist' = AfterPrompt(hist)
               /\ UNCHANGED ret
    /\ UNCHANGED <<gridVars, profVars, script, clock, remote, model_type, forecast_hour, scan, errs, checked,
                   mode, available_hours, filename, file_url, auto, ticks>>

\* download_forecast_file: urlretrieve, exit(1) when it raises
RawTransfer ==
    /\ script = "raw_data_viewer"
    /\ pc = "transfer"
    /\ \E failing \in FailingSets({file_url} \cap remote, hist.net_errors), stalled \in BOOLEAN :
          LET outcome == urlretrieve(file_url, remote, failing, stalled)
              ok == outcome = "ok"
          IN  IF outcome = "hang"
              THEN /\ hist' = AfterHang(hist, file_url)
                   /\ pc' = "hung"
                   /\ UNCHANGED <<localFiles, ret>>
              ELSE /\ hist' = AfterTransfer(hist, file_url, ~ok, failing, filename \in localFiles)
                   /\ IF ok
                      THEN /\ localFiles' = localFiles \cup {filename}
                           /\ ret' = "filename"
                           /\ pc' = "loaded"
                      ELSE /\ localFiles' = localFiles
                           /\ ret' = "exit(1)"
                           /\ pc' = "sys_exit"
    /\ UNCHANGED <<gridVars, profVars, script, clock, remote, model_type, forecast_hour, scan, errs, checked,
                   mode, available_hours, filename, file_url, auto, ticks>>

----------------------------------------------------------------------------
(* winds_from_grib2.py *)

\* download_latest_gfs_file: the newest 6-hour run of today, hour 0, downloaded
\* unless a file of that name exists
DownloadLatestGfsFile ==
    /\ script = "winds_from_grib2"
    /\ pc = "input_model"
    /\ LET run_hour == HourOf(clock) - (HourOf(clock) % 6)
           url == url_gfs_script(strftime(clock), run_hour)
       IN  /\ model_type' = "gfs"
           /\ forecast_hour' = 0
           /\ scan' = [run_hour |-> run_hour, date_str |-> strftime(clock), via |-> "clock"]
           /\ filename' = url.file
           /\ file_url' = url
           /\ IF url.file \notin localFiles
              THEN \E failing \in FailingSets({url} \cap remote, hist.net_errors), stalled \in BOOLEAN :
                      LET outcome == urlretrieve(url, remote, failing, stalled)
                          ok == outcome = "ok"
                      IN  IF outcome = "hang"
                          THEN /\ hist' = AfterHang(hist, url)
                               /\ pc' = "hung"
                               /\ UNCHANGED <<localFiles, ret>>
                          ELSE /\ hist' = AfterTransfer(hist, url, ~ok, failing, url.file \in localFiles)
                               /\ IF ok
                                  THEN /\ localFiles' = localFiles \cup {url.file}
                                       /\ ret' = "filename"
                                       /\ pc' = "loaded"
                                  ELSE /\ localFiles' = localFiles
                                       /\ ret' = "exit(1)"
                                       /\ pc' = "sys_exit"
              ELSE /\ ret' = "filename"
                   /\ pc' = "loaded"
                   /\ \E date \in CachedContentDates(strftime(clock)) :
                         hist' = AfterCached(hist, url.file, date)
                   /\ UNCHANGED localFiles
    /\ UNCHANGED <<gridVars, profVars, script, clock, remote, errs, checked, mode, available_hours, auto, ticks>>

\* positions whose next step calls datetime.now
ClockReaders == {"input_model", "list_hours", "input_hour", "download", "auto_hours", "auto_run"}

\* the wall clock reaches the next hour while the request runs
Tick ==
    /\ pc \in ClockReaders
    /\ ticks < MaxTicks
    /\ clock' = clock + 1
    /\ ticks' = ticks + 1
    /\ UNCHANGED <<gridVars, profVars, script, remote, localFiles, pc, model_type, forecast_hour, scan, errs, checked,
                   mode, available_hours, filename, file_url, ret, auto, hist>>

----------------------------------------------------------------------------
(* Specification Spec: one request of one of the scripts *)

\* forecast hours of the model's publication order
HoursPrefix(m, n) == IF m = "gfs" THEN {3 * k : k \in 0..(n - 1)} ELSE 0..(n - 1)
\* the first n forecast hours of the cycle run at t, as the provider names them
Published(m, t, n) == {url_download(m, strftime(t), HourOf(t), h) : h \in HoursPrefix(m, n)}
\* the same files in the working directory
Downloaded(urls) == {u.file : u \in urls}

\* remote stores a wind_profiler request may face at time now: the two hourly
\* cycles before now and the newest 6-hourly cycle, each published up to some hour
ProfilerStores(now) ==
    {Published("hrrr", now - 1, a) \cup Published("hrrr", now - 2, b)
        \cup Published("rap", now - 1, r) \cup Published("gfs", now - (now % 6), g) :
        a \in 0..MaxPublished, b \in {0, MaxPublished}, r \in {0, MaxPublished}, g \in {0, MaxPublished + 1}}

\* times at which a request starts: three hours after midnight
RequestClocks == {75}

Init ==
    /\ script \in {"wind_profiler", "raw_data_viewer", "winds_from_grib2"}
    /\ clock \in RequestClocks
    /\ remote \in ProfilerStores(clock)
    /\ localFiles \in {{}, Downloaded(remote)}
    /\ pc = "input_model"
    /\ model_type = ""
    /\ forecast_hour = NoHour
    /\ scan = NoScan
    /\ errs = {}
    /\ checked = FALSE
    /\ IdleRequest
    /\ IdleGrid
    /\ IdleProfile

Next ==
    \/ ChooseModel
    \/ ListHours
    \/ EnterHour
    \/ InputInterrupted
    \/ DownloadResolve
    \/ DownloadHeadCheck
    \/ CachePrompt
    \/ Transfer
    \/ AutoHours
    \/ AutoRun
    \/ AutoProbe
    \/ AutoSelect
    \/ AutoTransfer
    \/ RawChooseModel
    \/ RawEnterHour
    \/ RawResolve
    \/ RawCachePrompt
    \/ RawTransfer
    \/ DownloadLatestGfsFile
    \/ Tick

Spec == Init /\ [][Next]_vars

----------------------------------------------------------------------------
(* Claims about a request (Spec) *)

\* C4: the requested forecast hour is checked against the model's legality
\* rule before the first remote interaction of the request: no probe or
\* transfer is issued while the hour is unchecked, and none was issued when
\* the hour is accepted or rejected.
C4_LegalityBeforeRemote ==
    (mode = "explicit" /\ script # "winds_from_grib2") =>
        /\ hist.remote_issued => hist.hour_checked
        /\ hist.hour_checked => ~hist.checked_after_remote

\* the run time + forecast hour of the run the request resolved
ResolvedValidTime == valid_time(scan.date_str, scan.run_hour, forecast_hour)

\* C5 as stated: whenever wind_profiler hands a resolved run on to transfer,
\* in any mode, its valid time is not later than now.
C5_ValidTimeNotAfterNow ==
    (script = "wind_profiler" /\ pc \in {"transfer", "auto_transfer"}) => ResolvedValidTime <= clock

\* C5 amended: whenever auto mode hands its selected run on to transfer, the
\* valid time of that run is not later than the now auto mode read at its start.
C5_AutoValidTimeNotAfterNow ==
    (mode = "auto" /\ pc \in {"auto_transfer", "loaded", "crash"}) =>
        /\ ResolvedValidTime <= auto.now
        /\ auto.freshest_time = ResolvedValidTime

\* auto mode hands on hour 1 of an hourly run while a later hour of the
\* 6-hourly model, valid after now, is published
C5_Witness ==
    /\ mode = "auto"
    /\ pc = "auto_transfer"
    /\ forecast_hour = 1
    /\ ResolvedValidTime = auto.now
    /\ \E u \in Relevant(remote, "gfs") : u.file.fh = Pad3(6)

\* valid times, not after now, of the artifacts of model m that exist in the
\* cycles the availability check looks at
ConfirmedValidTimes(m, now, store) ==
    LET backs == IF m = "gfs" THEN PyRange(0, 24, 6) ELSE PyRange(0, 3, 1)
    IN  {valid_time(run_cycle(m, now - backs[i]).date_str, run_cycle(m, now - backs[i]).run_hour, h) :
            <<i, h>> \in {p \in (1..Len(backs)) \X get_available_forecast_hours(m) :
                /\ url_download(m, run_cycle(m, now - backs[p[1]]).date_str,
                                run_cycle(m, now - backs[p[1]]).run_hour, p[2]) \in store
                /\ valid_time(run_cycle(m, now - backs[p[1]]).date_str,
                              run_cycle(m, now - backs[p[1]]).run_hour, p[2]) <= now}}
WinningValidTime(m, now, store) ==
    IF ConfirmedValidTimes(m, now, store) = {} THEN NoTime ELSE SetMax(ConfirmedValidTimes(m, now, store))
\* the model the rule of C6 selects, "" when no model has a winning hour
WinningModel(now, store) ==
    LET have == {i \in 1..Len(AutoOrder) : WinningValidTime(AutoOrder[i], now, store) # NoTime}
        best == SetMax({WinningValidTime(AutoOrder[i], now, store) : i \in have})
    IN  IF have = {} THEN ""
        ELSE AutoOrder[SetMin({i \in have : WinningValidTime(AutoOrder[i], now, store) = best})]

\* C6: when auto mode has gone through the models (no probe having raised a
\* network error, the clock not having moved), the model it selected is the
\* one with the greatest winning valid time, the earlier in the priority order
\* on a tie, and the valid time it selected is that model's winning valid time.
C6_AutoSelectsFreshest ==
    (mode = "auto" /\ pc \in {"auto_transfer", "sys_exit"} /\ hist.net_errors = 0 /\ ticks = 0) =>
        /\ auto.freshest_model = WinningModel(auto.now, remote)
        /\ auto.freshest_model # "" =>
              auto.freshest_time = WinningValidTime(auto.freshest_model, auto.now, remote)

\* C7: every transfer is immediately preceded by a successful existence probe
\* of the identifier it transfers: the step before the transfer is that probe,
\* not a prompt, another probe or nothing.
C7_TransferPrecededByProbe ==
    hist.xfer_started =>
        /\ hist.xfer_prev.kind = "probe"
        /\ hist.xfer_prev.ok
        /\ hist.xfer_prev.url = hist.xfer_url

\* C8: a request that ended because the transfer failed after its probe
\* succeeded returns a value and ends in a state that differ from those of a
\* request whose probe failed.
C8_TransferFailureDistinct ==
    (script = "wind_profiler" /\ mode = "explicit" /\ hist.cause = "transfer_failed") =>
        /\ ret # download_unavailable_return
        /\ pc # "no_file_exit"

\* C9: for every model, every cycle the run scan looks at and every hour typed,
\* all the places that build the remote identifier build the same one.
C9_IdentifierIsOneFunction ==
    \A m \in Models : \A i \in 1..Len(find_run_candidates(m, clock)) : \A fh \in HourInputs :
        LET d == find_run_candidates(m, clock)[i].date_str
            r == find_run_candidates(m, clock)[i].run_hour
        IN  /\ url_check_availability(m, d, r, fh) = url_download(m, d, r, fh)
            /\ url_find_run(m, d, r, fh) = url_download(m, d, r, fh)
            /\ url_auto(m, d, r, fh) = url_download(m, d, r, fh)
            /\ m = "gfs" => url_latest(d, r, fh) = url_download(m, d, r, fh)
            /\ m # "rap" => url_raw(m, d, r, fh) = url_download(m, d, r, fh)
            /\ Len(url_download(m, d, r, fh).file.fh) = (IF m = "gfs" THEN 3 ELSE 2)

\* C19: a file that is already in the working directory is used by a request,
\* or written over by a transfer of the request, only after the cache prompt
\* was answered in that request, on every path of every script.
C19_NoSilentCacheUse ==
    /\ (pc = "loaded" /\ ~hist.xfer_started) => hist.prompted
    /\ hist.replaced => hist.prompted

\* C20: every remote interaction, probe or transfer, is bounded by a
\* timeout: a request is never left waiting without end for an endpoint that
\* accepted the connection and does not respond.
C20_RemoteCallsAreBounded ==
    pc # "hung"

----------------------------------------------------------------------------
(* Nearest grid point: coordinates are whole degrees *)

\* a regular grid as decoded from a GFS file: latitude from north to south,
\* longitude eastward from 0 on the unsigned 0..360 convention
RegularLatitude == [i \in 1..LatCells |-> 90 - (i - 1) * (180 \div (LatCells - 1))]
RegularLongitude == [j \in 1..LonCells |-> (j - 1) * (360 \div LonCells)]
\* a curvilinear grid as decoded from an HRRR or RAP file: 2-D latitude and
\* longitude arrays over the continental US, longitude unsigned
CurvilinearLatitude == << <<21, 22, 21>>, <<35, 36, 35>>, <<47, 48, 47>> >>
CurvilinearLongitude == << <<238, 263, 288>>, <<236, 263, 290>>, <<234, 263, 292>> >>

\* ds.latitude.values, ds.longitude.values and the number of their dimensions
Latitude(d) == IF d = "regular" THEN RegularLatitude ELSE CurvilinearLatitude
Longitude(d) == IF d = "regular" THEN RegularLongitude ELSE CurvilinearLongitude
Dims(d) == IF d = "regular" THEN 1 ELSE 2
\* the dataset cfgrib decodes from a file of model m
DatasetOf(m) == IF m = "gfs" THEN "regular" ELSE "curvilinear"

\* the shape of the wind arrays of a dataset: one row per latitude (or y)
\* index, one column per longitude (or x) index
Rows(d) == Len(Latitude(d))
Cols(d) == IF Dims(d) = 2 THEN Len(Longitude(d)[1]) ELSE Len(Longitude(d))

\* the difference as it is without np.abs
signed_difference(x) == x
\* np.abs
Abs(x) == IF x < 0 THEN -x ELSE x
\* an argmin that counts positions from 1
argmin_one_based(a) ==
    CHOOSE i \in 1..Len(a) : (\A k \in 1..Len(a) : a[i] <= a[k]) /\ (\A k \in 1..(i - 1) : a[k] > a[i])
\* numpy argmin of a 1-D array: the first index (from 0) of the least value
argmin(a) ==
    (CHOOSE i \in 1..Len(a) : (\A k \in 1..Len(a) : a[i] <= a[k]) /\ (\A k \in 1..(i - 1) : a[k] > a[i])) - 1
\* np.unravel_index(total_diff.argmin(), total_diff.shape): the first least
\* entry in row-major order
argmin2d(a) ==
    LET cells == (1..Len(a)) \X (1..Len(a[1]))
        before(p, q) == p[1] < q[1] \/ (p[1] = q[1] /\ p[2] < q[2])
        first == CHOOSE p \in cells :
                    /\ \A q \in cells : a[p[1]][p[2]] <= a[q[1]][q[2]]
                    /\ \A q \in cells : before(q, p) => a[q[1]][q[2]] > a[p[1]][p[2]]
    IN  [lat_idx |-> first[1] - 1, lon_idx |-> first[2] - 1]

\* nearest point of a grid to (lat, lon_adjusted), 2-D or 1-D
nearest(d, lat, lon_adjusted) ==
    IF Dims(d) = 2
    THEN argmin2d([r \in 1..Len(Latitude(d)) |-> [c \in 1..Len(Latitude(d)[r]) |->
                     Abs(Latitude(d)[r][c] - lat) + Abs(Longitude(d)[r][c] - lon_adjusted)]])
    ELSE [lat_idx |-> argmin([i \in 1..Len(Latitude(d)) |-> Abs(Latitude(d)[i] - lat)]),
          lon_idx |-> argmin([j \in 1..Len(Longitude(d)) |-> Abs(Longitude(d)[j] - lon_adjusted)])]

\* wind_profiler.main, "Handle longitude conversion properly" and the lookup
locate_profiler(m, d, lat, lon) ==
    nearest(d, lat, IF m = "hrrr" /\ lon < 0 THEN lon + 360 ELSE lon)
\* raw_data_viewer.main, "Handle longitude conversion for HRRR" and the lookup
locate_raw(m, d, lat, lon) ==
    nearest(d, lat, IF m = "hrrr" /\ lon < 0 THEN lon + 360 ELSE lon)
\* winds_from_grib2: lat_idx, lon_idx on the 1-D axes, longitude as typed
locate_gfs_script(d, lat, lon) ==
    [lat_idx |-> argmin([i \in 1..Len(Latitude(d)) |-> Abs(Latitude(d)[i] - lat)]),
     lon_idx |-> argmin([j \in 1..Len(Longitude(d)) |-> Abs(Longitude(d)[j] - lon)])]
\* the lookup of the script s
locate(s, m, d, lat, lon) ==
    IF s = "wind_profiler" THEN locate_profiler(m, d, lat, lon)
    ELSE IF s = "raw_data_viewer" THEN locate_raw(m, d, lat, lon)
    ELSE locate_gfs_script(d, lat, lon)

----------------------------------------------------------------------------
(* Specification SpecGrid: the grid lookup of each script, for any target *)

\* latitudes and longitudes typed by the user
LatInputs == {-90, -45, 0, 22, 36, 47, 90}
LonInputs == {-180, -110, -96, -75, -1, 0, 70, 110, 250, 264, 180}

\* models each script offers
ModelsOf(s) ==
    IF s = "wind_profiler" THEN Models
    ELSE IF s = "raw_data_viewer" THEN {"hrrr", "gfs"}
    ELSE {"gfs"}

InitGrid ==
    /\ script \in {"wind_profiler", "raw_data_viewer", "winds_from_grib2"}
    /\ model_type \in ModelsOf(script)
    /\ ds = DatasetOf(model_type)
    /\ target \in [lat : LatInputs, lon : LonInputs]
    /\ cell = NoCell
    /\ pc = "decoded"
    /\ clock \in RequestClocks
    /\ remote = {}
    /\ localFiles = {}
    /\ forecast_hour = 0
    /\ scan = NoScan
    /\ errs = {}
    /\ checked = FALSE
    /\ IdleRequest
    /\ IdleProfile

\* wind_profiler.main, "Step 3: Find the nearest grid point" and "Validate
\* indices are within bounds", which ends the process when an index is out
LocateProfiler ==
    /\ script = "wind_profiler"
    /\ pc = "decoded"
    /\ cell' = locate_profiler(model_type, ds, target.lat, target.lon)
    /\ pc' = IF cell'.lat_idx >= Rows(ds) \/ cell'.lon_idx >= Cols(ds)
             THEN "bounds_error"
             ELSE "located"
    /\ UNCHANGED <<script, clock, remote, localFiles, model_type, forecast_hour, scan, errs, checked,
                   reqVars, ds, target, profVars>>

\* raw_data_viewer.main, "Find nearest grid point"
LocateRaw ==
    /\ script = "raw_data_viewer"
    /\ pc = "decoded"
    /\ cell' = locate_raw(model_type, ds, target.lat, target.lon)
    /\ pc' = "located"
    /\ UNCHANGED <<script, clock, remote, localFiles, model_type, forecast_hour, scan, errs, checked,
                   reqVars, ds, target, profVars>>

\* winds_from_grib2, "Step 3: Find the nearest grid point"
LocateGfsScript ==
    /\ script = "winds_from_grib2"
    /\ pc = "decoded"
    /\ cell' = locate_gfs_script(ds, target.lat, target.lon)
    /\ pc' = "located"
    /\ UNCHANGED <<script, clock, remote, localFiles, model_type, forecast_hour, scan, errs, checked,
                   reqVars, ds, target, profVars>>

NextGrid ==
    \/ LocateProfiler
    \/ LocateRaw
    \/ LocateGfsScript

SpecGrid == InitGrid /\ [][NextGrid]_vars

\* C10: on a dataset whose longitude is unsigned, a target longitude x below
\* 0 is located in the same grid cell as the target x + 360, whatever the model.
C10_NegativeLongitudeSameCell ==
    (pc = "located" /\ target.lon < 0) =>
        cell = locate(script, model_type, ds, target.lat, target.lon + 360)

\* the distance between two coordinates of one axis
Distance(a, b) == IF a < b THEN b - a ELSE a - b
\* the target lies within the span of both axes of the regular grid
InRange(d, t) ==
    /\ \E i, k \in 1..Len(Latitude(d)) : Latitude(d)[i] <= t.lat /\ t.lat <= Latitude(d)[k]
    /\ \E j, k \in 1..Len(Longitude(d)) : Longitude(d)[j] <= t.lon /\ t.lon <= Longitude(d)[k]

C12_IndicesWithinBounds ==
    /\ pc # "bounds_error"
    /\ pc = "located" =>
          /\ 0 <= cell.lat_idx /\ cell.lat_idx < Rows(ds)
          /\ 0 <= cell.lon_idx /\ cell.lon_idx < Cols(ds)

\* the last row and the last column of a grid have been located by
\* wind_profiler, whose validation let them pass
C12_Witness ==
    /\ pc = "located" /\ script = "wind_profiler"
    /\ cell.lat_idx = Rows(ds) - 1
    /\ cell.lon_idx = Cols(ds) - 1

----------------------------------------------------------------------------
(* Rational arithmetic: the floating-point numbers of the profile are      *)
(* modelled as exact rationals                                             *)

RECURSIVE GCD(_, _)
GCD(a, b) == IF b = 0 THEN a ELSE GCD(b, a % b)
\* n / d in lowest terms with a positive denominator
Rat(n, d) ==
    LET g == GCD(Abs(n), Abs(d))
        sgn == IF d < 0 THEN -1 ELSE 1
    IN  [n |-> (sgn * n) \div g, d |-> (sgn * d) \div g]
RatInt(i) == [n |-> i, d |-> 1]
RatAdd(a, b) == Rat(a.n * b.d + b.n * a.d, a.d * b.d)
RatSub(a, b) == Rat(a.n * b.d - b.n * a.d, a.d * b.d)
RatMul(a, b) == Rat(a.n * b.n, a.d * b.d)
RatDiv(a, b) == Rat(a.n * b.d, a.d * b.n)
RatLess(a, b) == a.n * b.d < b.n * a.d
\* the quotient rounded down to a whole number
RatFloorDiv(a, b) == RatInt((a.n * b.d * (IF a.d * b.n < 0 THEN -1 ELSE 1)) \div Abs(a.d * b.n))

----------------------------------------------------------------------------
(* Terrain lookup of wind_profiler: coordinates in tenths of a degree *)

\* int(abs(x)) and int(x) of a coordinate given in tenths: truncation toward 0
int_abs(tenths) == Abs(tenths) \div 10
int_trunc(tenths) == IF tenths < 0 THEN -(Abs(tenths) \div 10) ELSE tenths \div 10

\* get_dted0_filename: the tile path built from the truncated absolute
\* coordinates, or None when no such file exists
dted0_filepath(lat, lon) ==
    LET lon_tile == int_abs(lon)
        lat_tile == int_abs(lat)
    IN  [lon_prefix |-> IF lon >= 0 \/ (lon < 0 /\ lon_tile = 0)
                        THEN [hemi |-> "e", deg |-> Pad3(lon_tile)]
                        ELSE [hemi |-> "w", deg |-> Pad3(lon_tile)],
         lat_prefix |-> IF lat >= 0
                        THEN [hemi |-> "n", deg |-> Pad2(lat_tile)]
                        ELSE [hemi |-> "s", deg |-> Pad2(lat_tile)]]
get_dted0_filename(lat, lon, files) ==
    IF dted0_filepath(lat, lon) \in files THEN dted0_filepath(lat, lon) ELSE NoPath

\* int() of a rational: truncation toward 0
int_rat(r) == IF r.n < 0 THEN -((-r.n) \div r.d) ELSE r.n \div r.d
\* the index left as int() gave it
clamp_index_skipped(i, n) == i
\* "Clamp indices": min(max(i, 0), n - 2)
clamp_index(i, n) ==
    LET lo == IF i > 0 THEN i ELSE 0
    IN  IF lo < n - 2 THEN lo ELSE n - 2
\* elevations[i, j]: indices from 0, a negative index counts from the end
element(elevations, i, j) ==
    elevations[(IF i < 0 THEN i + Len(elevations) ELSE i) + 1][(IF j < 0 THEN j + Len(elevations[1]) ELSE j) + 1]

\* get_ground_elevation_dted0, from "Find SW corner of tile" to elevation_m:
\* the base indices, the fractional offsets, the four posts and their
\* bilinear interpolation, for lat and lon in tenths of a degree
dted0_bilinear(lat, lon, elevations) ==
    LET n_lat == Len(elevations)
        n_lon == Len(elevations[1])
        lat0 == int_trunc(lat)
        lon0 == int_trunc(lon)
        lat_frac == Rat(lat - 10 * lat0, 10)
        lon_frac == Rat(lon - 10 * lon0, 10)
        lat_idx == RatMul(lat_frac, RatInt(n_lat - 1))
        lon_idx == RatMul(lon_frac, RatInt(n_lon - 1))
        i == clamp_index(int_rat(lat_idx), n_lat)
        j == clamp_index(int_rat(lon_idx), n_lon)
        di == RatSub(lat_idx, RatInt(i))
        dj == RatSub(lon_idx, RatInt(j))
        z00 == RatInt(element(elevations, i, j))
        z10 == RatInt(element(elevations, i + 1, j))
        z01 == RatInt(element(elevations, i, j + 1))
        z11 == RatInt(element(elevations, i + 1, j + 1))
        one_di == RatSub(RatInt(1), di)
        one_dj == RatSub(RatInt(1), dj)
    IN  [lat_idx |-> lat_idx, lon_idx |-> lon_idx, i |-> i, j |-> j, di |-> di, dj |-> dj,
         corners |-> {z00, z10, z01, z11},
         elevation_m |-> RatAdd(RatAdd(RatMul(RatMul(z00, one_di), one_dj),
                                       RatMul(RatMul(z10, di), one_dj)),
                                RatAdd(RatMul(RatMul(z01, one_di), dj),
                                       RatMul(RatMul(z11, di), dj)))]

\* get_ground_elevation_dted0: None when there is no tile or it cannot be
\* read; otherwise the bilinear interpolation of the four posts around the
\* point, in metres, times 3.28084
get_ground_elevation_dted0(lat, lon, dir) ==
    IF get_dted0_filename(lat, lon, dir.files) = NoPath THEN NoElevation
    ELSE IF ~dir.readable THEN NoElevation
    ELSE RatMul(dted0_bilinear(lat, lon, dir.elevations).elevation_m, Rat(328084, 100000))

\* get_user_input after a terrain lookup: on None it prompts for the ground
\* elevation, otherwise the inputs are complete
after_lookup_fatal(result) == IF result # NoElevation THEN "extracted" ELSE "sys_exit"
after_lookup(result) == IF result # NoElevation THEN "extracted" ELSE "input_ground_elevation"

----------------------------------------------------------------------------
(* Profile building *)

\* pressure_to_alt returning its argument, not an altitude
pressure_to_alt_unconverted(p_hpa) == p_hpa
\* pressure_to_alt, tabulated to the whole foot for whole pressures in hPa:
\* 44330 * (1 - (p / 1013.25) ** (1 / 5.255)) * 3.28084
pressure_to_alt(p_hpa) ==
    CASE p_hpa = 1013 -> 7
      [] p_hpa = 1000 -> 364
      [] p_hpa = 925 -> 2500
      [] p_hpa = 850 -> 4782
      [] p_hpa = 700 -> 9884
      [] p_hpa = 500 -> 18291
      [] p_hpa = 400 -> 23577
      [] p_hpa = 300 -> 30069
      [] p_hpa = 250 -> 34004
      [] p_hpa = 200 -> 38636
      [] p_hpa = 100 -> 51834
      [] p_hpa = 1 -> 106471

\* np.sqrt(u**2 + v**2) and (270 - np.rad2deg(np.arctan2(v, u))) % 360 for
\* winds along one axis, for which both are whole numbers
sqrt(n) == CHOOSE r \in 0..n : r * r = n
arctan2_deg(v, u) ==
    IF v = 0 THEN (IF u >= 0 THEN 0 ELSE 180)
    ELSE IF v > 0 THEN 90 ELSE -90
spd(lev) == sqrt(lev.u * lev.u + lev.v * lev.v)
dir(lev) == (270 - arctan2_deg(lev.v, lev.u)) % 360

\* np.arange(start, stop, step) of integers
arange(start, stop, step) == [i \in 1..((stop - start + step - 1) \div step) |-> start + (i - 1) * step]

\* interp1d(x, y, bounds_error=False, fill_value="extrapolate"): the points
\* sorted by x (stable), kept for the calls
argsort(x) ==
    LET rank(i) == Cardinality({k \in 1..Len(x) : x[k] < x[i] \/ (x[k] = x[i] /\ k < i)}) + 1
    IN  [r \in 1..Len(x) |-> CHOOSE i \in 1..Len(x) : rank(i) = r]
interp1d(x, y) ==
    [x |-> [r \in 1..Len(x) |-> RatInt(x[argsort(x)[r]])],
     y |-> [r \in 1..Len(x) |-> RatInt(y[argsort(x)[r]])]]
\* np.searchsorted(x, x_new): the number of points below x_new
searchsorted(x, x_new) == Cardinality({k \in 1..Len(x) : RatLess(x[k], x_new)})
clip(i, lo, hi) == IF i < lo THEN lo ELSE IF i > hi THEN hi ELSE i
\* the slope of a segment, and the slope when the division rounds down
slope_floor(y_hi, y_lo, x_hi, x_lo) == RatFloorDiv(RatSub(y_hi, y_lo), RatSub(x_hi, x_lo))
slope(y_hi, y_lo, x_hi, x_lo) == RatDiv(RatSub(y_hi, y_lo), RatSub(x_hi, x_lo))
\* the call of a linear interp1d: the segment is chosen by searchsorted
\* clipped to the inner points, so a point outside the data is on the line
\* through the outermost two points
interp_call(f, x_new) ==
    LET hi == clip(searchsorted(f.x, x_new), 1, Len(f.x) - 1)
        lo == hi - 1
    IN  RatAdd(RatMul(slope(f.y[hi + 1], f.y[lo + 1], f.x[hi + 1], f.x[lo + 1]),
                      RatSub(x_new, f.x[lo + 1])),
               f.y[lo + 1])

\* alt_ft, spd and dir of a column of levels
alt_ft(col) == [k \in 1..Len(col) |-> pressure_to_alt(col[k].lev)]
speeds(col) == [k \in 1..Len(col) |-> spd(col[k])]
directions(col) == [k \in 1..Len(col) |-> dir(col[k])]

\* the altitudes the interpolation is asked for: interp_alt itself, or in AGL
\* mode interp_alt + ground_elevation_ft
msl_altitudes_unshifted(interp_alt, g) == [i \in 1..Len(interp_alt) |-> RatInt(interp_alt[i])]
msl_altitudes(interp_alt, g) == [i \in 1..Len(interp_alt) |-> RatAdd(RatInt(interp_alt[i]), g)]

\* wind_profiler.main, steps 4 to 6: the table of the profile
profile(col, ceiling, reference, g) ==
    LET interp_alt == arange(0, ceiling + 1000, 1000)
        speed_i == interp1d(alt_ft(col), speeds(col))
        dir_i == interp1d(alt_ft(col), directions(col))
        at == IF reference = "MSL"
              THEN [i \in 1..Len(interp_alt) |-> RatInt(interp_alt[i])]
              ELSE msl_altitudes(interp_alt, g)
    IN  [altitude_label |-> IF reference = "MSL" THEN "Altitude_ft_MSL" ELSE "Altitude_ft_AGL",
         rows |-> [i \in 1..Len(interp_alt) |->
                     [altitude |-> interp_alt[i],
                      Wind_Speed_kts |-> interp_call(speed_i, at[i]),
                      Wind_Direction_deg |-> interp_call(dir_i, at[i])]]]

\* winds_from_grib2, steps 4 to 6
profile_gfs_script(col, ceiling) ==
    LET interp_alt == arange(0, ceiling + 1000, 1000)
        speed_i == interp1d(alt_ft(col), speeds(col))
        dir_i == interp1d(alt_ft(col), directions(col))
    IN  [altitude_label |-> "Altitude_ft",
         rows |-> [i \in 1..Len(interp_alt) |->
                     [altitude |-> interp_alt[i],
                      Wind_Speed_kts |-> interp_call(speed_i, RatInt(interp_alt[i])),
                      Wind_Direction_deg |-> interp_call(dir_i, RatInt(interp_alt[i]))]]]

----------------------------------------------------------------------------
(* Specification SpecProfile: the altitude reference, the ground elevation  *)
(* and the profile table, for bounded columns, ceilings and locations       *)

\* most levels a column has
MaxLevels == 3
\* isobaric levels of a dataset, from the ground up
PressureLevels == <<1000, 850, 700, 500, 400>>
\* u and v of a level, m/s
Winds == {[u |-> 5, v |-> 0], [u |-> 0, v |-> -10]}
\* columns: the lowest 2..MaxLevels levels in the order of the file, upward
\* or downward, each with a wind
Columns ==
    UNION {{[k \in 1..n |-> [lev |-> PressureLevels[IF up THEN k ELSE n + 1 - k], u |-> w[k].u, v |-> w[k].v]] :
                w \in [1..n -> Winds], up \in BOOLEAN} : n \in 2..MaxLevels}
\* ceilings typed: the least, one that is not a multiple of 1000, one above
\* the altitude of the second level
Ceilings == {1000, 1500, 10000}
\* ground elevations typed: sea level, the altitudes that put an AGL step on
\* the two lowest levels, one beyond the accepted range
ElevationInputs == {0, 364, 782, 40000}
\* locations: south and north, west and east, whole and fractional degrees,
\* a longitude between -1 and 0
Locations ==
    {[lat |-> -335, lon |-> -705], [lat |-> -340, lon |-> 102],
     [lat |-> 515, lon |-> -1], [lat |-> 515, lon |-> 102]}
\* answers at the altitude reference prompt
ReferenceChoices == {"1", "2", "3"}

\* the name of the 1-degree tile whose south-west corner is (lat, lon), whole degrees
tile_of_corner(lat, lon) ==
    [lon_prefix |-> [hemi |-> IF lon >= 0 THEN "e" ELSE "w", deg |-> Pad3(Abs(lon))],
     lat_prefix |-> [hemi |-> IF lat >= 0 THEN "n" ELSE "s", deg |-> Pad2(Abs(lat))]]
\* the DTED0 directory when installed: the tiles around the locations
InstalledTiles == {tile_of_corner(a, b) : a \in {-35, -34, -33, 51}, b \in {-71, -70, -1, 0, 10}}
\* the posts of a tile, metres, elevations[latitude index][longitude index]:
\* the smallest tile that can be interpolated in, and one with inner posts
TilePosts ==
    {<< <<2500, 5000>>, <<0, 2500>> >>,
     << <<5000, 2500, 2500>>, <<2500, 2500, 5000>>, <<0, 2500, 7500>> >>}
DtedDirs ==
    {NoDted, [files |-> InstalledTiles, readable |-> FALSE, elevations |-> <<>>]}
        \cup {[files |-> InstalledTiles, readable |-> TRUE, elevations |-> e] : e \in TilePosts}

\* wind_profiler: lat, lon and max_elevation_ft are typed, the altitude
\* reference is asked next; winds_from_grib2 has no altitude reference and
\* no terrain lookup.  column is what the dataset holds at the located cell.
\* DTED_AVAILABLE is False as shipped and True where the tiles are installed;
\* the DTED0 directory is read only when it is True.
InitProfile ==
    /\ script \in {"wind_profiler", "winds_from_grib2"}
    /\ column \in Columns
    /\ max_elevation_ft \in Ceilings
    /\ location \in Locations
    /\ IF script = "wind_profiler"
       THEN /\ pc = "input_reference"
            /\ DTED_AVAILABLE \in BOOLEAN
            /\ dted0 \in (IF DTED_AVAILABLE THEN DtedDirs ELSE {NoDted})
       ELSE /\ pc = "extracted"
            /\ DTED_AVAILABLE = FALSE
            /\ dted0 = NoDted
    /\ elev = NoElev
    /\ altitude_reference = "MSL"
    /\ ground_elevation_ft = RatInt(0)
    /\ df = NoTable
    /\ model_type = "gfs"
    /\ clock \in RequestClocks
    /\ remote = {}
    /\ localFiles = {}
    /\ forecast_hour = 0
    /\ scan = NoScan
    /\ errs = {}
    /\ checked = FALSE
    /\ IdleRequest
    /\ IdleGrid

\* wind_profiler.get_user_input, "Ask for altitude reference preference"
ChooseAltitudeReference ==
    /\ script = "wind_profiler"
    /\ pc = "input_reference"
    /\ \E altitude_choice \in ReferenceChoices :
          IF altitude_choice = "1"
          THEN /\ altitude_reference' = "MSL"
               /\ ground_elevation_ft' = RatInt(0)
               /\ pc' = "extracted"
               /\ UNCHANGED elev
          ELSE IF altitude_choice = "2"
          THEN /\ altitude_reference' = "AGL"
               /\ IF DTED_AVAILABLE
                  THEN LET result == get_ground_elevation_dted0(location.lat, location.lon, dted0)
                       IN  /\ ground_elevation_ft' = IF result # NoElevation THEN result ELSE ground_elevation_ft
                           /\ elev' = [elev EXCEPT !.lookup = IF result # NoElevation THEN "hit" ELSE "miss",
                                                   !.filepath = get_dted0_filename(location.lat, location.lon, dted0.files)]
                           /\ pc' = after_lookup(result)
                  ELSE /\ pc' = "input_ground_elevation"
                       /\ UNCHANGED <<ground_elevation_ft, elev>>
          ELSE UNCHANGED <<altitude_reference, ground_elevation_ft, pc, elev>>
    /\ UNCHANGED <<script, clock, remote, localFiles, model_type, forecast_hour, scan, errs, checked,
                   reqVars, gridVars, location, DTED_AVAILABLE, dted0, column, max_elevation_ft, df>>

\* wind_profiler.get_manual_ground_elevation: a value outside -1000..30000
\* is asked for again
EnterGroundElevation ==
    /\ script = "wind_profiler"
    /\ pc = "input_ground_elevation"
    /\ \E typed \in ElevationInputs :
          IF -1000 <= typed /\ typed <= 30000
          THEN /\ ground_elevation_ft' = RatInt(typed)
               /\ elev' = [elev EXCEPT !.typed = RatInt(typed)]
               /\ pc' = "extracted"
          ELSE UNCHANGED <<ground_elevation_ft, elev, pc>>
    /\ UNCHANGED <<script, clock, remote, localFiles, model_type, forecast_hour, scan, errs, checked,
                   reqVars, gridVars, location, DTED_AVAILABLE, dted0, column, max_elevation_ft,
                   altitude_reference, df>>

\* wind_profiler.main, steps 4 to 6
BuildProfile ==
    /\ script = "wind_profiler"
    /\ pc = "extracted"
    /\ df' = profile(column, max_elevation_ft, altitude_reference, ground_elevation_ft)
    /\ pc' = "profiled"
    /\ UNCHANGED <<script, clock, remote, localFiles, model_type, forecast_hour, scan, errs, checked,
                   reqVars, gridVars, location, DTED_AVAILABLE, dted0, elev, column, max_elevation_ft,
                   altitude_reference, ground_elevation_ft>>

\* winds_from_grib2, steps 4 to 6
BuildProfileGfsScript ==
    /\ script = "winds_from_grib2"
    /\ pc = "extracted"
    /\ df' = profile_gfs_script(column, max_elevation_ft)
    /\ pc' = "profiled"
    /\ UNCHANGED <<script, clock, remote, localFiles, model_type, forecast_hour, scan, errs, checked,
                   reqVars, gridVars, location, DTED_AVAILABLE, dted0, elev, column, max_elevation_ft,
                   altitude_reference, ground_elevation_ft>>

NextProfile ==
    \/ ChooseAltitudeReference
    \/ EnterGroundElevation
    \/ BuildProfile
    \/ BuildProfileGfsScript

SpecProfile == InitProfile /\ [][NextProfile]_vars

\* the MSL altitude the row i of the table was interpolated for
RowMslAltitude(i) ==
    IF altitude_reference = "AGL" /\ script = "wind_profiler"
    THEN RatAdd(RatInt(df.rows[i].altitude), ground_elevation_ft)
    ELSE RatInt(df.rows[i].altitude)
\* speed (m/s) and direction of the column interpolated at the MSL altitude x
SpeedAt(x) == interp_call(interp1d(alt_ft(column), speeds(column)), x)
DirectionAt(x) == interp_call(interp1d(alt_ft(column), directions(column)), x)

\* C13: for every ceiling, a multiple of 1000 or not, the altitude labels of
\* the profile start at 0, rise in steps of exactly 1000 ft and end at the
\* ceiling: no row is above the ceiling.
C13_AltitudesUpToCeiling ==
    pc = "profiled" =>
        /\ Len(df.rows) >= 1
        /\ df.rows[1].altitude = 0
        /\ \A i \in 2..Len(df.rows) : df.rows[i].altitude = df.rows[i - 1].altitude + 1000
        /\ \A i \in 1..Len(df.rows) : df.rows[i].altitude <= max_elevation_ft
        /\ max_elevation_ft % 1000 = 0 => df.rows[Len(df.rows)].altitude = max_elevation_ft

\* C14: in the AGL profile the row labelled a keeps the label a and carries
\* the speed and the direction the interpolation over MSL altitudes yields at
\* a + ground elevation.
C14_AglRowIsMslAtShift ==
    (pc = "profiled" /\ altitude_reference = "AGL") =>
        /\ df.altitude_label = "Altitude_ft_AGL"
        /\ \A i \in 1..Len(df.rows) :
              /\ df.rows[i].altitude = (i - 1) * 1000
              /\ df.rows[i].Wind_Speed_kts =
                    SpeedAt(RatAdd(RatInt((i - 1) * 1000), ground_elevation_ft))
              /\ df.rows[i].Wind_Direction_deg =
                    DirectionAt(RatAdd(RatInt((i - 1) * 1000), ground_elevation_ft))

\* an AGL profile over ground that is not at sea level, a row of which differs
\* from the value at its own label
C14_Witness ==
    /\ pc = "profiled" /\ altitude_reference = "AGL"
    /\ ground_elevation_ft # RatInt(0)
    /\ \E i \in 1..Len(df.rows) : df.rows[i].Wind_Speed_kts # SpeedAt(RatInt(df.rows[i].altitude))

\* C15: the wind speed of every row is in knots: the interpolated speed
\* sqrt(u^2 + v^2), which is in m/s, times 1.944, in both scripts that write a
\* Wind_Speed_kts column.
C15_SpeedInKnots ==
    pc = "profiled" =>
        \A i \in 1..Len(df.rows) :
            df.rows[i].Wind_Speed_kts = RatMul(SpeedAt(RowMslAltitude(i)), Rat(1944, 1000))

FloorTile(loc) == tile_of_corner(loc.lat \div 10, loc.lon \div 10)

\* C17: the tile the terrain lookup chooses is the one named from floor(lat)
\* and floor(lon) with the hemisphere prefix of the floored value, for every
\* location, negative fractional coordinates and longitudes between -1 and 0
\* included.
C17_TileIsFloorTile ==
    elev.lookup # "none" =>
        elev.filepath = (IF FloorTile(location) \in dted0.files THEN FloorTile(location) ELSE NoPath)

\* C18: in AGL mode a terrain lookup that finds no tile, or cannot read it,
\* does not end the request: the ground elevation is the one typed next, and
\* the profile is the AGL profile of that value.
C18_LookupMissFallsBack ==
    (altitude_reference = "AGL" /\ elev.lookup = "miss") =>
        /\ pc \in {"input_ground_elevation", "extracted", "profiled"}
        /\ pc \in {"extracted", "profiled"} =>
              /\ elev.typed # NoElevation
              /\ ground_elevation_ft = elev.typed
        /\ pc = "profiled" =>
              /\ df = profile(column, max_elevation_ft, "AGL", elev.typed)
              /\ \A i \in 1..Len(df.rows) :
                    df.rows[i].Wind_Speed_kts = SpeedAt(RatAdd(RatInt(df.rows[i].altitude), elev.typed))

\* a profile was built over typed ground after the lookup found the tile
\* file but could not read it
C18_Witness ==
    /\ pc = "profiled" /\ altitude_reference = "AGL"
    /\ elev.lookup = "miss" /\ elev.filepath # NoPath
    /\ elev.typed # NoElevation /\ elev.typed # RatInt(0)

----------------------------------------------------------------------------
(* Forecast-hour legality in every script *)

\* model names a caller may pass, one of them unknown to the scripts
ModelNames == Models \cup {"nam"}
\* the legality rule: hrrr 0..18, rap 0..21, gfs every 3 h up to 120 and
\* every 6 h after that up to 384
LegalHour(m, h) ==
    IF m = "hrrr" THEN 0 <= h /\ h <= 18
    ELSE IF m = "rap" THEN 0 <= h /\ h <= 21
    ELSE IF m = "gfs" THEN (0 <= h /\ h <= 120 /\ h % 3 = 0) \/ (120 < h /\ h <= 384 /\ h % 6 = 0)
    ELSE FALSE

\* C21: in every script a forecast hour is accepted as legal exactly when
\* the legality rule of the model holds for it, and a model name other than
\* hrrr, rap and gfs is rejected with an error.
C21_LegalHoursInEveryScript ==
    \A m \in ModelNames : \A h \in -1..390 :
        /\ (script = "wind_profiler" /\ m \in ModelsOf(script)) =>
              ((h \in get_available_forecast_hours(m)) <=> LegalHour(m, h))
        /\ (script = "raw_data_viewer" /\ m \in ModelsOf(script)) =>
              ((h \in raw_get_available_forecast_hours(m)) <=> LegalHour(m, h))
        /\ (script = "wind_profiler" /\ m \notin Models) => get_available_forecast_hours_raises(m)
        /\ (script = "raw_data_viewer" /\ m \notin Models) => raw_get_available_forecast_hours_raises(m)

\* the run whose data the file the request ends with holds, as the triple
\* the request reports: run date, run hour digits, forecast hour digits
ReportedArtifact ==
    [date |-> scan.date_str, run |-> Pad2(scan.run_hour), fh |-> filename.fh]

\* C22: on every path of wind_profiler that ends with a file (an hour typed
\* in, automatic mode, a file already in the working directory), the run
\* date, run hour and forecast hour the valid time is computed from are those
\* of the data in the file that was transferred or loaded.
C22_ValidTimeNamesTheArtifact ==
    (script = "wind_profiler" /\ pc = "loaded") => hist.artifact = ReportedArtifact

\* the pressures pressure_to_alt is tabulated for, hPa
TabulatedPressures == {1, 100, 200, 250, 300, 400, 500, 700, 850, 925, 1000, 1013}

Cadence(m) == IF m = "gfs" THEN 6 ELSE 1

\* C24: the candidates of the backward scan are cadence-aligned run cycles not
\* later than now, each exactly one cadence (1 h for hrrr and rap, 6 h for gfs)
\* before the one tried before it, across UTC midnight as well, and their
\* number is bounded by the lookback.
C24_CandidatesStepBackByCadence ==
    pc = "returned" =>
        LET c == ScanCandidates
        IN  /\ \A i \in 1..Len(c) :
                  /\ c[i].run_hour % Cadence(model_type) = 0
                  /\ CycleTime(c[i]) <= clock
            /\ \A i \in 1..(Len(c) - 1) :
                  CycleTime(c[i]) - CycleTime(c[i + 1]) = Cadence(model_type)
            /\ Len(c) * Cadence(model_type) <= 48

\* the model whose available hours were listed last
ListedModel == IF mode = "auto" THEN AutoOrder[auto.i] ELSE model_type
\* the store holds, for some run, the file a probe for hour h of model m asks for
PublishedHour(m, h) ==
    \E u \in remote : \E d \in {u.date} : \E r \in 0..23 :
        u = url_check_availability(m, d, r, h)

\* C25: every forecast hour in the list get_immediately_available_hours
\* returned was confirmed by a successful probe in that call: no hour, hour 0
\* included, is listed without a published file behind it, and the list is
\* empty when nothing is published.
C25_ListedHoursWereConfirmed ==
    (script = "wind_profiler" /\ pc \in {"input_hour", "auto_run"}) =>
        \A h \in available_hours : PublishedHour(ListedModel, h)

\* the target longitude on the unsigned scale of the dataset
NormalizedLon(lon) == IF lon < 0 THEN lon + 360 ELSE lon
\* the sum a cell of the curvilinear grid is ranked by, cells counted from 1
TotalDiff(d, t, p) ==
    Distance(Latitude(d)[p[1]][p[2]], t.lat) + Distance(Longitude(d)[p[1]][p[2]], NormalizedLon(t.lon))
\* row-major order of cells
RowMajorBefore(p, q) == p[1] < q[1] \/ (p[1] = q[1] /\ p[2] < q[2])

\* C26: on a curvilinear grid the returned (row, column) minimizes
\* |lat[row, col] - target lat| + |lon[row, col] - normalized target lon| over
\* all cells jointly, and among the cells with the least sum it is the first
\* in row-major order.
C26_CurvilinearJointNearest ==
    (pc = "located" /\ Dims(ds) = 2) =>
        LET p == <<cell.lat_idx + 1, cell.lon_idx + 1>>
            cells == (1..Rows(ds)) \X (1..Cols(ds))
        IN  /\ p \in cells
            /\ \A q \in cells : TotalDiff(ds, target, p) <= TotalDiff(ds, target, q)
            /\ \A q \in cells : RowMajorBefore(q, p) => TotalDiff(ds, target, q) > TotalDiff(ds, target, p)

\* what get_ground_elevation_dted0 computed in the lookup that returned a value
Interpolation == dted0_bilinear(location.lat, location.lon, dted0.elevations)
RatLeq(a, b) == ~RatLess(b, a)

\* C27: for every location, north or south, east or west, and every tile of
\* at least 2 x 2 posts, the base indices satisfy 0 <= i <= n_lat - 2 and
\* 0 <= j <= n_lon - 2, so the four posts read are inside the tile.
C27_BaseIndicesInTile ==
    elev.lookup = "hit" =>
        /\ 0 <= Interpolation.i /\ Interpolation.i <= Len(dted0.elevations) - 2
        /\ 0 <= Interpolation.j /\ Interpolation.j <= Len(dted0.elevations[1]) - 2
\* a lookup south of the equator in a tile with inner posts, where int() gave
\* an index below 0
C27_Witness ==
    /\ elev.lookup = "hit"
    /\ location.lat < 0
    /\ Len(dted0.elevations) > 2
    /\ int_rat(Interpolation.lat_idx) < 0
    /\ Interpolation.i = 0

\* C29: for every location, negative latitudes and longitudes included, the
\* offsets di and dj lie in [0, 1], so the interpolated elevation is neither
\* below the least nor above the greatest of the four posts.
C29_WeightsWithinUnitInterval ==
    elev.lookup = "hit" =>
        /\ RatLeq(RatInt(0), Interpolation.di) /\ RatLeq(Interpolation.di, RatInt(1))
        /\ RatLeq(RatInt(0), Interpolation.dj) /\ RatLeq(Interpolation.dj, RatInt(1))
        /\ \E z \in Interpolation.corners : RatLeq(z, Interpolation.elevation_m)
        /\ \E z \in Interpolation.corners : RatLeq(Interpolation.elevation_m, z)

\* C28: when a fresh download is chosen over a file already in the working
\* directory and the download fails, that file is still there afterwards, so
\* the request can fall back to it.
C28_FailedRefreshKeepsCachedFile ==
    (hist.prompted /\ hist.cause = "transfer_failed") => filename \in localFiles

\* C30: every row of a profile has a wind speed of at least 0, the rows
\* included whose altitude (after the AGL shift) is below the lowest or above
\* the highest level and is extrapolated, for every ceiling in 1000..50000
\* and every ground elevation in -1000..30000.
C30_SpeedNeverNegative ==
    (pc = "profiled" /\ RatLeq(RatInt(-1000), ground_elevation_ft) /\ RatLeq(ground_elevation_ft, RatInt(30000))) =>
        \A i \in 1..Len(df.rows) : RatLeq(RatInt(0), df.rows[i].Wind_Speed_kts)

====
